---- MODULE Spec2Model ----
(***************************************************************************)
(* Vacation request lifecycle of src/vacation.py: the in-memory stores     *)
(* vacation_requests / vacation_data / vacation_stats / vacation_config,   *)
(* the interaction handlers (submit, approve, deny, early return, forced   *)
(* finish, recall) and the three periodic tasks of VacationTasks.          *)
(*                                                                         *)
(* Handlers are asyncio coroutines: code between two awaits runs           *)
(* atomically, and at an await that really suspends any other handler may  *)
(* run.  Every action below is one such atomic stretch.                    *)
(*                                                                         *)
(* Time is the wall clock in minutes (MSK), observed at 00:00 of every     *)
(* day; a date is a day number.  Dates are stored by the code as ISO       *)
(* strings of local midnight and read back with fromisoformat(...).date(), *)
(* which is the day number again.  External calls (role service, direct    *)
(* messages, message edits) return before the clock is observed next.      *)
(*                                                                         *)
(* vacation_data[request_id] is the very dict object that                  *)
(* vacation_requests[request_id] holds (line 1081 stores `data`, not a     *)
(* copy), so a request is one record in vacation_requests and              *)
(* vacation_data is the ordered list of keys under which that object is    *)
(* also filed.  log_channel_id is left at its default None (line 99), so   *)
(* send_vacation_log returns at line 294 without suspending.               *)
(***************************************************************************)
EXTENDS Integers, Sequences, FiniteSets, TLC

\* ---------------------------------------------------------------- bounds
MaxReqs == 2            \* requests ever submitted
MaxDay == 4             \* the clock stops at the end of this day
MonthLen == 4           \* day number at which the next calendar month starts
MaxSelects == 1         \* selections made in one VacationSelectView
ReviewDays == 2         \* days observed by SpecReview
FailReqs == 1           \* requests submitted in SpecFail
LedgerDays == 5         \* days observed by SpecLedger
EligibilityDays == 1    \* days observed by SpecEligibility
IdSeconds == 1          \* last second of an observed instant in SpecIds
MaxTicks == 3           \* quarter hours observed after midnight in SpecPasses

\* ------------------------------------------------------ program constants
MinutesPerHour == 60
HoursPerDay == 24
MinutesPerDay == HoursPerDay * MinutesPerHour
Durations == {3, 7, 14}                 \* buttons of VacationStartDateModal
SetupHours == {24, 48}                  \* two of the choices 12, 24, 48, 72 of vacation_setup
DefaultAutoCloseHours == 24
DefaultMaxPerMonth == 1
CheckVacationsMinutes == 30             \* @tasks.loop(minutes=30)
CheckAutoCloseMinutes == 15             \* @tasks.loop(minutes=15)

\* --------------------------------------------------------------- universe
Guilds == {1, 2}
Actors == {1, 2}
ModId == 9                              \* a member holding an allowed role
VacRole == "vac"
ManagedRoles == {"booster"}             \* role.managed
NoRole == "None"                        \* vacation_role_id = None
None == -1
NoId == <<0, 0, 0>>                     \* an id that is in no store
Months == 0..((MaxDay + 1) \div MonthLen + 1)

VARIABLES
    now,                \* datetime.now(MSK), minutes
    guilds,             \* bot.guilds
    vacation_config,    \* guild -> configuration dict
    member_roles,       \* guild -> actor -> member.roles
    vacation_requests,  \* request id -> request dict
    request_order,      \* insertion order of the keys of vacation_requests
    vacation_data,      \* keys of vacation_data in insertion order
    vacation_stats,     \* actor -> month key -> [count, total_days]
    reply,              \* the error message of the last interaction, "none" if it was carried out
    ac,                 \* the check_auto_close task
    lc,                 \* the check_vacations task
    er,                 \* early_return_vacation calls suspended on the role service
    view,               \* the open VacationSelectView
    rc,                 \* vacation_force recalls suspended between lines 2137 and 2196
    form,               \* the open submission dialogues: <<actor, guild>> with the date modal open,
                        \* <<actor, guild, start_date, day>> with start_date accepted on that day
    rm,                 \* the check_reminders task
    reminded,           \* request id -> number of reminders delivered to the member
    disk,               \* vacation_requests.json and the file of vacation_data as last written
    own                 \* entries of vacation_data that are dicts of their own (loaded from the file)

vars == <<now, guilds, vacation_config, member_roles, vacation_requests,
          request_order, vacation_data, vacation_stats, reply, ac, lc, er, view, rc, form, rm, reminded, disk, own>>

\* approve_vacation stores in vacation_data the dict it has in
\* vacation_requests, so while the process lives an entry of vacation_data is
\* the request itself and vacation_data is modelled by its keys.  A restart
\* loads the two files into separate dicts: `own` holds the entries of
\* vacation_data from then on, and is empty before.

\* groups used in UNCHANGED
fixed == <<guilds, vacation_config>>
handlers == <<er, view, rc, form>>
reminder == <<rm, reminded>>

\* ------------------------------------------------------------------ time
Date(t) == t \div MinutesPerDay

get_month_key(t) == Date(t) \div MonthLen

Hours(h) == h * MinutesPerHour

\* --------------------------------------------------------------- helpers
SeqToSet(s) == {s[i] : i \in 1..Len(s)}

RemoveKey(s, k) == SelectSeq(s, LAMBDA x : x # k)

\* d[k] = v on an insertion-ordered dict: a new key goes to the end
PutKey(s, k) == IF k \in SeqToSet(s) THEN s ELSE Append(s, k)

\* save_json(vacation_requests, "vacation_requests.json")
save_requests(d, reqs, order) == [d EXCEPT !.requests = reqs, !.order = order]

\* save_json(vacation_data, VACATION_DATA_FILE)
save_data(d, reqs, vdata) ==
    [d EXCEPT !.data = vdata,
              !.recs = [id \in SeqToSet(vdata) |->
                            IF id \in DOMAIN own THEN own[id] ELSE reqs[id]]]

Members(g) == IF g = 1 THEN Actors ELSE {2}

get_member(g, a) == a \in Members(g)

get_config(g) == vacation_config[g]

DefaultConfig ==
    [vacation_role_id |-> NoRole,
     auto_close_hours |-> DefaultAutoCloseHours,
     max_vacations_per_month |-> DefaultMaxPerMonth,
     banned_roles |-> {},
     min_rank_roles |-> {}]

\* ------------------------------------------------------------ eligibility
\* can_take_vacation that looks at the monthly limit before the roles
can_take_vacation_quota_first(a, g) ==
    LET config == get_config(g)
        roles == member_roles[g][a]
        vacations_taken == vacation_stats[a][get_month_key(now)].count
    IN  IF vacations_taken >= config.max_vacations_per_month THEN "quota"
        ELSE IF roles \cap config.banned_roles # {} THEN "banned"
        ELSE IF config.min_rank_roles # {} /\ roles \cap config.min_rank_roles = {}
             THEN "rank"
        ELSE "ok"

can_take_vacation(a, g) ==
    LET config == get_config(g)
        roles == member_roles[g][a]
        vacations_taken == vacation_stats[a][get_month_key(now)].count
    IN  IF roles \cap config.banned_roles # {} THEN "banned"
        ELSE IF config.min_rank_roles # {} /\ roles \cap config.min_rank_roles = {}
             THEN "rank"
        ELSE IF vacations_taken >= config.max_vacations_per_month THEN "quota"
        ELSE "ok"

\* ---------------------------------------------------------------- ledger
\* update_vacation_stats that counts a taken vacation but not its days
update_vacation_stats_daysless(stats, a, duration_days, action, t) ==
    LET month_key == get_month_key(t)
        s == stats[a][month_key]
        taken == [count |-> s.count + 1, total_days |-> s.total_days]
        cancelled ==
            [count |-> IF s.count > 0 THEN s.count - 1 ELSE s.count,
             total_days |-> IF s.total_days >= duration_days
                            THEN s.total_days - duration_days ELSE s.total_days]
    IN  [stats EXCEPT ![a][month_key] =
            IF action = "taken" THEN taken
            ELSE IF action = "cancelled" THEN cancelled
            ELSE s]

update_vacation_stats(stats, a, duration_days, action, t) ==
    LET month_key == get_month_key(t)
        s == stats[a][month_key]
        taken == [count |-> s.count + 1, total_days |-> s.total_days + duration_days]
        cancelled ==
            [count |-> IF s.count > 0 THEN s.count - 1 ELSE s.count,
             total_days |-> IF s.total_days >= duration_days
                            THEN s.total_days - duration_days ELSE s.total_days]
    IN  [stats EXCEPT ![a][month_key] =
            IF action = "taken" THEN taken
            ELSE IF action = "cancelled" THEN cancelled
            ELSE s]

\* lines 230-231: the sums over the months of one user
RECURSIVE SumMonths(_, _, _)
SumMonths(user_data, months, field) ==
    IF months = {} THEN 0
    ELSE LET m == CHOOSE x \in months : TRUE
         IN  user_data[m][field] + SumMonths(user_data, months \ {m}, field)

get_user_stats(stats, a) ==
    [total_vacations |-> SumMonths(stats[a], DOMAIN stats[a], "count"),
     total_days |-> SumMonths(stats[a], DOMAIN stats[a], "total_days")]

\* ----------------------------------------------------------- idle values
NoCall == [pc |-> "none"]
NoView == [guild |-> 0, vacations |-> <<>>, uses |-> 0]
ACIdle == [pc |-> "idle", gi |-> 0, now |-> 0, hours |-> 0, items |-> <<>>, cur |-> NoId]
LCIdle == [pc |-> "idle", gi |-> 0, now |-> 0, items |-> <<>>, cur |-> NoId, adding |-> {}]
RMIdle == [pc |-> "idle", gi |-> 0, now |-> 0, seen |-> {}, size |-> 0, cur |-> NoId]

\* ---------------------------------------------------------------- submit
\* request_id = f"{author.id}_{int(timestamp)}": the third component tells
\* apart two seconds of the same observed instant
FreshSecond(a) ==
    CHOOSE k \in 0..MaxReqs : <<a, now, k>> \notin DOMAIN vacation_requests

NewRequest(a, g, start_date, duration) ==
    [user_id |-> a,
     guild_id |-> g,
     start_date |-> start_date,
     end_date |-> start_date + duration,
     duration_days |-> duration,
     status |-> "pending",
     created_at |-> now,
     reviewed_by |-> None,
     reviewed_at |-> None,
     review_comment |-> "None",
     deny_reason |-> "None",
     auto_close_at |-> now + Hours(get_config(g).auto_close_hours),
     saved_roles |-> {},
     reminder_sent |-> FALSE,
     auto_closed |-> FALSE,
     auto_closed_at |-> None,
     force_recalled |-> FALSE]

\* The whole submission dialogue completed at one instant: apply_vacation,
\* VacationStartDateModal.callback, select_duration, VacationReasonModal.callback
Submit(a, g, start_date, duration) ==
    /\ Len(request_order) < MaxReqs
    /\ get_member(g, a)
    /\ can_take_vacation(a, g) = "ok"
    /\ start_date >= Date(now) + 1
    /\ LET id == <<a, now, FreshSecond(a)>>
       IN  /\ vacation_requests' = (id :> NewRequest(a, g, start_date, duration)) @@ vacation_requests
           /\ request_order' = PutKey(request_order, id)
    /\ disk' = save_requests(disk, vacation_requests', request_order')
    /\ reply' = "none"
    /\ UNCHANGED <<now, fixed, member_roles, vacation_data, vacation_stats, ac, lc, handlers, reminder, own>>

\* The whole dialogue completed in second k of the instant now, which may be
\* a second in which the same member has completed one before:
\* vacation_requests[request_id] = request_data (line 826) then replaces the
\* stored dict
SubmitAt(a, g, start_date, duration, k) ==
    /\ Len(request_order) < MaxReqs
    /\ get_member(g, a)
    /\ can_take_vacation(a, g) = "ok"
    /\ start_date >= Date(now) + 1
    /\ LET id == <<a, now, k>>
       IN  /\ vacation_requests' = (id :> NewRequest(a, g, start_date, duration)) @@ vacation_requests
           /\ request_order' = PutKey(request_order, id)
    /\ disk' = save_requests(disk, vacation_requests', request_order')
    /\ reply' = "none"
    /\ UNCHANGED <<now, fixed, member_roles, vacation_data, vacation_stats, ac, lc, handlers, reminder, own>>

\* apply_vacation refused by can_take_vacation
SubmitRejected(a, g) ==
    /\ get_member(g, a)
    /\ can_take_vacation(a, g) # "ok"
    /\ reply' = can_take_vacation(a, g)
    /\ UNCHANGED <<now, fixed, member_roles, vacation_requests, request_order,
                   vacation_data, vacation_stats, ac, lc, handlers, reminder, disk, own>>

\* apply_vacation passed by can_take_vacation: the dialogue opens
\* (VacationStartDateModal, then the duration buttons, then
\* VacationReasonModal)
ApplyVacation(a, g) ==
    /\ get_member(g, a)
    /\ can_take_vacation(a, g) = "ok"
    /\ form' = form \cup {<<a, g>>}
    /\ reply' = "none"
    /\ UNCHANGED <<now, fixed, member_roles, vacation_requests, request_order,
                   vacation_data, vacation_stats, ac, lc, er, view, rc, reminder, disk, own>>

\* VacationStartDateModal.callback accepted start_date (line 714), a duration
\* was selected, and VacationReasonModal.callback stores the request
CompleteForm(a, g, start_date, duration) ==
    /\ <<a, g>> \in form
    /\ Len(request_order) < MaxReqs
    /\ start_date >= Date(now) + 1
    /\ LET id == <<a, now, FreshSecond(a)>>
       IN  /\ vacation_requests' = (id :> NewRequest(a, g, start_date, duration)) @@ vacation_requests
           /\ request_order' = PutKey(request_order, id)
    /\ form' = form \ {<<a, g>>}
    /\ disk' = save_requests(disk, vacation_requests', request_order')
    /\ reply' = "none"
    /\ UNCHANGED <<now, fixed, member_roles, vacation_data, vacation_stats,
                   ac, lc, er, view, rc, reminder, own>>

\* VacationStartDateModal.callback, lines 701-751: start_date is what
\* parse_date made of the text, None if it has no date format
EnterStartDate(a, g, start_date) ==
    /\ <<a, g>> \in form
    /\ IF start_date = None
       THEN /\ reply' = "bad_format"
            /\ form' = form \ {<<a, g>>}
       ELSE IF start_date < Date(now) + 1
       THEN /\ reply' = "bad_date"
            /\ form' = form \ {<<a, g>>}
       ELSE /\ reply' = "none"
            /\ form' = (form \ {<<a, g>>}) \cup {<<a, g, start_date, Date(now)>>}
    /\ UNCHANGED <<now, fixed, member_roles, vacation_requests, request_order,
                   vacation_data, vacation_stats, ac, lc, er, view, rc, reminder, disk, own>>

\* select_duration (lines 753-760) and VacationReasonModal.callback (lines
\* 791-827) for a dialogue whose start_date was accepted on day `entered`
CompleteDated(a, g, start_date, entered, duration) ==
    /\ <<a, g, start_date, entered>> \in form
    /\ Len(request_order) < MaxReqs
    /\ LET id == <<a, now, FreshSecond(a)>>
       IN  /\ vacation_requests' = (id :> NewRequest(a, g, start_date, duration)) @@ vacation_requests
           /\ request_order' = PutKey(request_order, id)
    /\ form' = form \ {<<a, g, start_date, entered>>}
    /\ disk' = save_requests(disk, vacation_requests', request_order')
    /\ reply' = "none"
    /\ UNCHANGED <<now, fixed, member_roles, vacation_data, vacation_stats,
                   ac, lc, er, view, rc, reminder, own>>

\* approve_vacation without the status check of line 1065
approve_vacation_unchecked(request_id) ==
    IF request_id \notin DOMAIN vacation_requests
    THEN /\ reply' = "not_found"
         /\ UNCHANGED <<vacation_requests, vacation_data, vacation_stats, disk>>
    ELSE LET data == vacation_requests[request_id]
         IN  /\ vacation_requests' =
                    [vacation_requests EXCEPT ![request_id] =
                        [data EXCEPT !.status = "approved",
                                     !.reviewed_by = ModId,
                                     !.reviewed_at = now,
                                     !.review_comment = "ok"]]
             /\ vacation_stats' = update_vacation_stats(vacation_stats,
                   data.user_id, data.duration_days, "taken", now)
             /\ vacation_data' = PutKey(vacation_data, request_id)
             /\ disk' = save_data(disk, vacation_requests', vacation_data')
             /\ reply' = "none"

\* approve_vacation that refuses when the member is over the monthly limit
approve_vacation_quota(request_id) ==
    IF request_id \notin DOMAIN vacation_requests
    THEN /\ reply' = "not_found"
         /\ UNCHANGED <<vacation_requests, vacation_data, vacation_stats, disk>>
    ELSE LET data == vacation_requests[request_id]
         IN  IF data.status # "pending"
             THEN /\ reply' = "already_reviewed"
                  /\ UNCHANGED <<vacation_requests, vacation_data, vacation_stats, disk>>
             ELSE IF can_take_vacation(data.user_id, data.guild_id) # "ok"
             THEN /\ reply' = can_take_vacation(data.user_id, data.guild_id)
                  /\ UNCHANGED <<vacation_requests, vacation_data, vacation_stats, disk>>
             ELSE /\ vacation_requests' =
                        [vacation_requests EXCEPT ![request_id] =
                            [data EXCEPT !.status = "approved",
                                         !.reviewed_by = ModId,
                                         !.reviewed_at = now,
                                         !.review_comment = "ok"]]
                  /\ vacation_stats' = update_vacation_stats(vacation_stats,
                        data.user_id, data.duration_days, "taken", now)
                  /\ vacation_data' = PutKey(vacation_data, request_id)
                  /\ disk' = save_data(disk, vacation_requests', vacation_data')
                  /\ reply' = "none"

approve_vacation(request_id) ==
    IF request_id \notin DOMAIN vacation_requests
    THEN /\ reply' = "not_found"
         /\ UNCHANGED <<vacation_requests, vacation_data, vacation_stats, disk>>
    ELSE LET data == vacation_requests[request_id]
         IN  IF data.status # "pending"
             THEN /\ reply' = "already_reviewed"
                  /\ UNCHANGED <<vacation_requests, vacation_data, vacation_stats, disk>>
             ELSE /\ vacation_requests' =
                        [vacation_requests EXCEPT ![request_id] =
                            [data EXCEPT !.status = "approved",
                                         !.reviewed_by = ModId,
                                         !.reviewed_at = now,
                                         !.review_comment = "ok"]]
                  /\ vacation_stats' = update_vacation_stats(vacation_stats,
                        data.user_id, data.duration_days, "taken", now)
                  /\ vacation_data' = PutKey(vacation_data, request_id)
                  /\ disk' = save_data(disk, vacation_requests', vacation_data')
                  /\ reply' = "none"

Approve(request_id) ==
    /\ approve_vacation(request_id)
    /\ UNCHANGED <<now, fixed, member_roles, request_order, ac, lc, handlers, reminder, own>>

\* deny_vacation that also takes the request's days off the ledger
deny_vacation_debiting(request_id) ==
    IF request_id \notin DOMAIN vacation_requests
    THEN /\ reply' = "not_found"
         /\ UNCHANGED <<vacation_requests, vacation_data, vacation_stats>>
    ELSE LET data == vacation_requests[request_id]
         IN  IF data.status # "pending"
             THEN /\ reply' = "already_reviewed"
                  /\ UNCHANGED <<vacation_requests, vacation_data, vacation_stats>>
             ELSE /\ vacation_requests' =
                        [vacation_requests EXCEPT ![request_id] =
                            [data EXCEPT !.status = "denied",
                                         !.reviewed_by = ModId,
                                         !.reviewed_at = now,
                                         !.deny_reason = "no"]]
                  /\ vacation_stats' = update_vacation_stats(vacation_stats,
                        data.user_id, data.duration_days, "cancelled", now)
                  /\ UNCHANGED vacation_data
                  /\ reply' = "none"

\* deny_vacation without the status check of line 1192
deny_vacation_unchecked(request_id) ==
    IF request_id \notin DOMAIN vacation_requests
    THEN /\ reply' = "not_found"
         /\ UNCHANGED <<vacation_requests, vacation_data, vacation_stats>>
    ELSE LET data == vacation_requests[request_id]
         IN  /\ vacation_requests' =
                    [vacation_requests EXCEPT ![request_id] =
                        [data EXCEPT !.status = "denied",
                                     !.reviewed_by = ModId,
                                     !.reviewed_at = now,
                                     !.deny_reason = "no"]]
             /\ UNCHANGED <<vacation_data, vacation_stats>>
             /\ reply' = "none"

deny_vacation(request_id) ==
    IF request_id \notin DOMAIN vacation_requests
    THEN /\ reply' = "not_found"
         /\ UNCHANGED <<vacation_requests, vacation_data, vacation_stats>>
    ELSE LET data == vacation_requests[request_id]
         IN  IF data.status # "pending"
             THEN /\ reply' = "already_reviewed"
                  /\ UNCHANGED <<vacation_requests, vacation_data, vacation_stats>>
             ELSE /\ vacation_requests' =
                        [vacation_requests EXCEPT ![request_id] =
                            [data EXCEPT !.status = "denied",
                                         !.reviewed_by = ModId,
                                         !.reviewed_at = now,
                                         !.deny_reason = "no"]]
                  /\ UNCHANGED <<vacation_data, vacation_stats>>
                  /\ reply' = "none"

Deny(request_id) ==
    /\ deny_vacation(request_id)
    /\ UNCHANGED <<now, fixed, member_roles, request_order, ac, lc, handlers, reminder, disk, own>>

\* ------------------------------------------------------ check_auto_close
\* Runs the loops of check_auto_close from (gi, items) up to the next await
\* that suspends (the edit of the review message of a closed request) or to
\* the end of the pass.  t and hours are the locals `now` (line 1670) and
\* `auto_close_hours` (line 1674).
\* lines 1681-1684: the deadline is computed from created_at and the hours
\* read from the configuration by this pass
auto_close_due(data, t, hours) ==
    LET auto_close_at == data.created_at + Hours(hours)
    IN  t >= auto_close_at

\* no status test at line 1677
ac_candidate_any(data) == data.status \in {"pending", "approved", "denied"}

\* the status test of line 1677 letting closed requests through
ac_candidate_closed(data) == data.status \in {"pending", "cancelled"}

\* line 1677
ac_candidate(data) == data.status = "pending"

RECURSIVE ac_scan(_, _, _, _)
ac_scan(gi, t, hours, items) ==
    IF items = <<>>
    THEN IF gi < Len(guilds)
         THEN [ac_scan(gi + 1, t, get_config(guilds[gi + 1]).auto_close_hours,
                       request_order) EXCEPT !.saved = TRUE]
         ELSE [closed |-> NoId, saved |-> TRUE, ac |-> ACIdle]
    ELSE LET request_id == Head(items)
             data == vacation_requests[request_id]
         IN  IF ~ac_candidate(data) THEN ac_scan(gi, t, hours, Tail(items))
             ELSE IF auto_close_due(data, t, hours)
             THEN [closed |-> request_id, saved |-> FALSE,
                   ac |-> [pc |-> "edit", gi |-> gi, now |-> t, hours |-> hours,
                           items |-> Tail(items), cur |-> request_id]]
             ELSE ac_scan(gi, t, hours, Tail(items))

ac_apply(r) ==
    /\ ac' = r.ac
    /\ vacation_requests' =
          IF r.closed = NoId THEN vacation_requests
          ELSE [vacation_requests EXCEPT ![r.closed] =
                   [@ EXCEPT !.status = "cancelled", !.auto_closed = TRUE,
                             !.auto_closed_at = r.ac.now]]
    \* line 1727, reached before anything is closed in this stretch
    /\ disk' = IF r.saved THEN save_requests(disk, vacation_requests, request_order)
               ELSE disk

\* the task fires: lines 1670-1674, then the loop
AutoCloseStart ==
    /\ ac.pc = "idle"
    /\ Len(guilds) > 0
    /\ ac_apply(ac_scan(1, now, get_config(guilds[1]).auto_close_hours, request_order))
    /\ UNCHANGED <<now, fixed, member_roles, request_order, vacation_data,
                   vacation_stats, reply, lc, handlers, reminder, own>>

\* message.edit returned (or raised, line 1711): lines 1715-1724, then the loop
AutoCloseResume ==
    /\ ac.pc = "edit"
    /\ ac_apply(ac_scan(ac.gi, ac.now, ac.hours, ac.items))
    /\ UNCHANGED <<now, fixed, member_roles, request_order, vacation_data,
                   vacation_stats, reply, lc, handlers, reminder, own>>

\* ------------------------------------------------------- vacation_setup
vacation_setup(g, hours, quota) ==
    /\ vacation_config' = [vacation_config EXCEPT ![g] =
            [@ EXCEPT !.vacation_role_id = VacRole,
                      !.auto_close_hours = hours,
                      !.max_vacations_per_month = quota]]
    /\ reply' = "none"
    /\ UNCHANGED <<now, guilds, member_roles, vacation_requests, request_order,
                   vacation_data, vacation_stats, ac, lc, handlers, reminder, disk, own>>

\* -------------------------------------------------------- vacation_roles
\* allowed_roles (the voters) is stored as well; reviews here are made by
\* ModId, who holds a voting role.
vacation_roles(g, banned_roles, min_rank_roles) ==
    /\ vacation_config' = [vacation_config EXCEPT ![g] =
            [@ EXCEPT !.banned_roles = banned_roles,
                      !.min_rank_roles = min_rank_roles]]
    /\ reply' = "none"
    /\ UNCHANGED <<now, guilds, member_roles, vacation_requests, request_order,
                   vacation_data, vacation_stats, ac, lc, handlers, reminder, disk, own>>

\* ------------------------------------------------------- check_vacations
LCRec(pc, gi, t, items, cur, adding) ==
    [pc |-> pc, gi |-> gi, now |-> t, items |-> items, cur |-> cur, adding |-> adding]

\* line 1494
starts_today(data, t) == data.start_date = Date(t)

\* the test of line 1541 off by one day
has_ended_early(data, t) == data.end_date <= Date(t) + 1

\* line 1541
has_ended(data, t) == data.end_date <= Date(t)

\* lines 1503-1507 without the `not role.managed` test
roles_to_save_managed(roles, vacation_role_id) ==
    {role \in roles : role # vacation_role_id}

\* lines 1503-1507: the roles saved before the vacation role is granted
roles_to_save(roles, vacation_role_id) ==
    {role \in roles : role # vacation_role_id /\ role \notin ManagedRoles}

\* lines 1558-1574: after the revoke, restore the saved roles or notify
expire_resume(gi, t, items, request_id, saved_roles, roles) ==
    IF saved_roles # {} /\ saved_roles \ roles # {}
    THEN LCRec("restore", gi, t, items, request_id, saved_roles \ roles)
    ELSE LCRec("notify", gi, t, items, request_id, {})

\* lines 1593-1600
expire_commit(reqs, request_id) ==
    [reqs EXCEPT ![request_id] = [@ EXCEPT !.status = "completed"]]

\* Runs the loop of check_vacations over `items` for guild guilds[gi] up to
\* the next await that suspends, or to the end of the loop (lines 1612-1616).
\* t is the local `now` of line 1483; reqs and vdata are the stores as
\* written so far by this stretch.
RECURSIVE lc_scan(_, _, _, _, _)
lc_scan(gi, t, items, reqs, vdata) ==
    IF items = <<>>
    THEN [reqs |-> reqs, vdata |-> vdata, lc |-> LCRec("lists", gi, t, <<>>, NoId, {})]
    ELSE LET request_id == Head(items)
             data == reqs[request_id]
             g == guilds[gi]
             user == get_member(g, data.user_id)
             roles == member_roles[g][data.user_id]
             vacation_role_id == get_config(g).vacation_role_id
             skip == lc_scan(gi, t, Tail(items), reqs, vdata)
         IN  IF data.status # "approved" THEN skip
             ELSE IF starts_today(data, t)
             THEN IF user /\ vacation_role_id # NoRole /\ vacation_role_id \notin roles
                  THEN [reqs |-> [reqs EXCEPT ![request_id] =
                                     [@ EXCEPT !.saved_roles =
                                         roles_to_save(roles, vacation_role_id)]],
                        vdata |-> vdata,
                        lc |-> LCRec("grant", gi, t, Tail(items), request_id, {})]
                  ELSE skip
             ELSE IF has_ended(data, t)
             THEN IF user /\ vacation_role_id # NoRole /\ vacation_role_id \in roles
                  THEN [reqs |-> reqs, vdata |-> vdata,
                        lc |-> LCRec("revoke", gi, t, Tail(items), request_id, {})]
                  ELSE IF user
                  THEN [reqs |-> reqs, vdata |-> vdata,
                        lc |-> expire_resume(gi, t, Tail(items), request_id,
                                             data.saved_roles, roles)]
                  ELSE lc_scan(gi, t, Tail(items), expire_commit(reqs, request_id),
                               RemoveKey(vdata, request_id))
             ELSE skip

lc_apply(r, d) ==
    /\ lc' = r.lc
    /\ vacation_requests' = r.reqs
    /\ vacation_data' = r.vdata
    \* lines 1612-1613 at the end of the loop of a guild
    /\ disk' = IF r.lc.pc = "lists"
               THEN save_requests(save_data(d, r.reqs, r.vdata), r.reqs, request_order)
               ELSE d

\* check_vacations fired by a timer, whether or not its previous pass has
\* returned
LifecycleStartOverlapping ==
    /\ Len(guilds) > 0
    /\ lc_apply(lc_scan(1, now, vacation_data, vacation_requests, vacation_data), disk)
    /\ UNCHANGED <<now, fixed, member_roles, request_order, vacation_stats, reply,
                   ac, handlers, reminder, own>>

\* the task fires: lines 1479-1485 for the first guild, then the loop.
\* tasks.loop awaits the coroutine and only then sleeps until the next
\* iteration, so the task fires only when its previous pass has returned.
LifecycleStart ==
    /\ lc.pc = "idle"
    /\ Len(guilds) > 0
    /\ lc_apply(lc_scan(1, now, vacation_data, vacation_requests, vacation_data), disk)
    /\ UNCHANGED <<now, fixed, member_roles, request_order, vacation_stats, reply,
                   ac, handlers, reminder, own>>

\* user.add_roles(vacation_role) of line 1509 returned (ok) or raised
LifecycleGrantDone(ok) ==
    /\ lc.pc = "grant"
    /\ LET g == guilds[lc.gi]
           a == vacation_requests[lc.cur].user_id
       IN  IF ok
           THEN /\ member_roles' = [member_roles EXCEPT ![g][a] = @ \cup {VacRole}]
                /\ lc' = [lc EXCEPT !.pc = "started"]
                /\ UNCHANGED <<vacation_requests, vacation_data, disk>>
           ELSE /\ UNCHANGED member_roles
                /\ lc_apply(lc_scan(lc.gi, lc.now, lc.items, vacation_requests,
                                    vacation_data), disk)
    /\ UNCHANGED <<now, fixed, request_order, vacation_stats, reply, ac, handlers, reminder, own>>

\* user.send of line 1525 returned or raised: lines 1530-1540, then the loop
LifecycleStartedDone ==
    /\ lc.pc = "started"
    /\ lc_apply(lc_scan(lc.gi, lc.now, lc.items, vacation_requests,
                        PutKey(vacation_data, lc.cur)),
                \* line 1540
                save_data(disk, vacation_requests, PutKey(vacation_data, lc.cur)))
    /\ UNCHANGED <<now, fixed, member_roles, request_order, vacation_stats, reply,
                   ac, handlers, reminder, own>>

\* user.remove_roles(vacation_role) of line 1554 returned (ok) or raised
LifecycleRevokeDone(ok) ==
    /\ lc.pc = "revoke"
    /\ LET g == guilds[lc.gi]
           data == vacation_requests[lc.cur]
           roles == IF ok THEN member_roles[g][data.user_id] \ {VacRole}
                    ELSE member_roles[g][data.user_id]
       IN  /\ member_roles' = [member_roles EXCEPT ![g][data.user_id] = roles]
           /\ lc' = expire_resume(lc.gi, lc.now, lc.items, lc.cur, data.saved_roles, roles)
    /\ UNCHANGED <<now, fixed, vacation_requests, request_order, vacation_data,
                   vacation_stats, reply, ac, handlers, reminder, disk, own>>

\* user.add_roles(*roles_to_add) of line 1569 returned (ok) or raised
LifecycleRestoreDone(ok) ==
    /\ lc.pc = "restore"
    /\ LET g == guilds[lc.gi]
           a == vacation_requests[lc.cur].user_id
       IN  member_roles' = [member_roles EXCEPT ![g][a] =
                                IF ok THEN @ \cup lc.adding ELSE @]
    /\ lc' = [lc EXCEPT !.pc = "notify", !.adding = {}]
    /\ UNCHANGED <<now, fixed, vacation_requests, request_order, vacation_data,
                   vacation_stats, reply, ac, handlers, reminder, disk, own>>

\* user.send of line 1588 returned or raised: lines 1593-1609, then the loop
LifecycleNotifyDone ==
    /\ lc.pc = "notify"
    /\ lc_apply(lc_scan(lc.gi, lc.now, lc.items,
                        expire_commit(vacation_requests, lc.cur),
                        RemoveKey(vacation_data, lc.cur)), disk)
    /\ UNCHANGED <<now, fixed, member_roles, request_order, vacation_stats, reply,
                   ac, handlers, reminder, own>>

\* update_vacation_lists of line 1616 returned: the next guild, or the end
LifecycleListsDone ==
    /\ lc.pc = "lists"
    /\ IF lc.gi < Len(guilds)
       THEN lc_apply(lc_scan(lc.gi + 1, now, vacation_data, vacation_requests,
                             vacation_data), disk)
       ELSE /\ lc' = LCIdle
            /\ UNCHANGED <<vacation_requests, vacation_data, disk>>
    /\ UNCHANGED <<now, fixed, member_roles, request_order, vacation_stats, reply,
                   ac, handlers, reminder, own>>

\* ------------------------------------------------------- check_reminders
RMRec(pc, gi, t, seen, size, cur) ==
    [pc |-> pc, gi |-> gi, now |-> t, seen |-> seen, size |-> size, cur |-> cur]

\* line 1629
days_left(data, t) == data.end_date - Date(t)

\* lines 1625 and 1632 without the reminder_sent test
reminder_due_again(data, t) ==
    data.status = "approved" /\ days_left(data, t) = 1

\* lines 1625 and 1632
reminder_due(data, t) ==
    data.status = "approved" /\ days_left(data, t) = 1 /\ ~data.reminder_sent

\* Runs the loops of check_reminders up to the next user.send, or to the end
\* of the pass.  The inner loop iterates vacation_data.items() itself (line
\* 1624): `seen` are the keys the iterator has passed, `size` is the length
\* of the dict when the iteration began, and a next() on a dict of another
\* length raises RuntimeError, which ends the task (tasks.loop does not
\* restart after an exception of the coroutine).  t is `now` of line 1621.
RECURSIVE rm_scan(_, _, _, _, _, _)
rm_scan(gi, t, seen, size, reqs, vdata) ==
    IF Len(vdata) # size THEN RMRec("failed", gi, t, seen, size, NoId)
    ELSE LET items == SelectSeq(vdata, LAMBDA id : id \notin seen)
         IN  IF items = <<>>
             THEN IF gi < Len(guilds)
                  THEN rm_scan(gi + 1, t, {}, Len(vdata), reqs, vdata)
                  ELSE RMIdle
             ELSE LET request_id == Head(items)
                      data == reqs[request_id]
                  IN  IF reminder_due(data, t) /\ get_member(guilds[gi], data.user_id)
                      THEN RMRec("send", gi, t, seen \cup {request_id}, size, request_id)
                      ELSE rm_scan(gi, t, seen \cup {request_id}, size, reqs, vdata)

\* the task fires: line 1621, then the loops
ReminderStart ==
    /\ rm.pc = "idle"
    /\ Len(guilds) > 0
    /\ rm' = rm_scan(1, now, {}, Len(vacation_data), vacation_requests, vacation_data)
    /\ UNCHANGED <<now, fixed, member_roles, vacation_requests, request_order,
                   vacation_data, vacation_stats, reply, ac, lc, handlers, reminded, disk, own>>

\* user.send of line 1649 returned (ok): lines 1652-1653, then the loop; or
\* raised: line 1664, then the loop
ReminderSendDone(ok) ==
    /\ rm.pc = "send"
    /\ LET request_id == rm.cur
           reqs == IF ok
                   THEN [vacation_requests EXCEPT ![request_id] =
                            [@ EXCEPT !.reminder_sent = TRUE]]
                   ELSE vacation_requests
           vdata == IF ok THEN PutKey(vacation_data, request_id) ELSE vacation_data
       IN  /\ vacation_requests' = reqs
           /\ vacation_data' = vdata
           /\ reminded' =
                 IF ~ok THEN reminded
                 ELSE IF request_id \in DOMAIN reminded
                 THEN [reminded EXCEPT ![request_id] = @ + 1]
                 ELSE (request_id :> 1) @@ reminded
           /\ rm' = rm_scan(rm.gi, rm.now, rm.seen, rm.size, reqs, vdata)
    /\ UNCHANGED <<now, fixed, member_roles, request_order, vacation_stats, reply,
                   ac, lc, handlers, disk, own>>

\* -------------------------------------------------- early_return_vacation
ERCall(pc, g, request_id, adding) ==
    [pc |-> pc, guild |-> g, id |-> request_id, adding |-> adding]

\* lines 1321-1336 (early_return_at and early_return_by are not modelled)
er_commit(request_id) ==
    LET data == vacation_requests[request_id]
        days_used == Date(now) - data.start_date
    IN  /\ vacation_requests' = [vacation_requests EXCEPT ![request_id] =
                                    [data EXCEPT !.status = "early_return"]]
        /\ vacation_stats' =
              IF days_used > 0
              THEN update_vacation_stats(vacation_stats, data.user_id,
                                         data.duration_days - days_used, "cancelled", now)
              ELSE vacation_stats
        /\ vacation_data' = RemoveKey(vacation_data, request_id)
        /\ er' = NoCall
        /\ reply' = "none"
        \* lines 1331-1336
        /\ disk' = save_requests(
                      IF request_id \in SeqToSet(vacation_data)
                      THEN save_data(disk, vacation_requests', vacation_data')
                      ELSE disk,
                      vacation_requests', request_order)

\* lines 1306-1318 with `roles` the member's roles after the revoke
er_restore(g, request_id, roles) ==
    LET data == vacation_requests[request_id]
        user == get_member(g, data.user_id)
    IN  IF data.saved_roles # {} /\ user /\ data.saved_roles \ roles # {}
        THEN /\ er' = ERCall("add", g, request_id, data.saved_roles \ roles)
             /\ UNCHANGED <<vacation_requests, vacation_stats, vacation_data, reply, disk>>
        ELSE er_commit(request_id)

\* lines 1291-1301: entry of early_return_vacation(inter, request_id, data)
early_return_vacation(g, request_id) ==
    LET data == vacation_requests[request_id]
        user == get_member(g, data.user_id)
        vacation_role_id == get_config(g).vacation_role_id
    IN  /\ er = NoCall
        /\ IF vacation_role_id # NoRole /\ user
              /\ vacation_role_id \in member_roles[g][data.user_id]
           THEN /\ er' = ERCall("remove", g, request_id, {})
                /\ UNCHANGED <<vacation_requests, vacation_stats, vacation_data, reply, disk>>
           ELSE er_restore(g, request_id, member_roles[g][data.user_id])

\* user.remove_roles of line 1301 returned (ok) or raised
EarlyReturnRevokeDone(ok) ==
    /\ er.pc = "remove"
    /\ LET a == vacation_requests[er.id].user_id
           roles == IF ok THEN member_roles[er.guild][a] \ {VacRole}
                    ELSE member_roles[er.guild][a]
       IN  /\ member_roles' = [member_roles EXCEPT ![er.guild][a] = roles]
           /\ er_restore(er.guild, er.id, roles)
    /\ UNCHANGED <<now, fixed, request_order, ac, lc, view, rc, form, reminder, own>>

\* user.add_roles of line 1316 returned (ok) or raised
EarlyReturnRestoreDone(ok) ==
    /\ er.pc = "add"
    /\ LET a == vacation_requests[er.id].user_id
       IN  member_roles' = [member_roles EXCEPT ![er.guild][a] =
                                IF ok THEN @ \cup er.adding ELSE @]
    /\ er_commit(er.id)
    /\ UNCHANGED <<now, fixed, request_order, ac, lc, view, rc, form, reminder, own>>

\* the approved entries of vacation_data of one user, in dict order
ApprovedOf(a) ==
    SelectSeq(vacation_data, LAMBDA id : vacation_requests[id].user_id = a
                                         /\ vacation_requests[id].status = "approved")

\* VacationMainMenu.return_from_vacation
ReturnFromVacation(a, g) ==
    /\ get_member(g, a)
    /\ LET user_vacations == ApprovedOf(a)
       IN  IF user_vacations = <<>>
           THEN /\ reply' = "no_active"
                /\ UNCHANGED <<vacation_requests, vacation_stats, vacation_data, er, view, disk>>
           ELSE IF Len(user_vacations) > 1
           THEN /\ view' = [guild |-> g, vacations |-> user_vacations, uses |-> 0]
                /\ reply' = "none"
                /\ UNCHANGED <<vacation_requests, vacation_stats, vacation_data, er, disk>>
           ELSE /\ early_return_vacation(g, user_vacations[1])
                /\ UNCHANGED view
    /\ UNCHANGED <<now, fixed, member_roles, request_order, ac, lc, rc, form, reminder, own>>

\* VacationSelectView.select_callback: the entry is looked up in the list the
\* view was built with
SelectCallback(request_id) ==
    /\ request_id \in SeqToSet(view.vacations)
    /\ view.uses < MaxSelects
    /\ early_return_vacation(view.guild, request_id)
    /\ view' = [view EXCEPT !.uses = @ + 1]
    /\ UNCHANGED <<now, fixed, member_roles, request_order, ac, lc, rc, form, reminder, own>>

\* ---------------------------------------------------------- vacation_force
\* action "завершить"
ForceFinish(a, g) ==
    /\ get_member(g, a)
    /\ LET found == ApprovedOf(a)
       IN  IF found = <<>>
           THEN /\ reply' = "no_active"
                /\ UNCHANGED <<vacation_requests, vacation_stats, vacation_data, er, disk>>
           ELSE early_return_vacation(g, found[1])
    /\ UNCHANGED <<now, fixed, member_roles, request_order, ac, lc, view, rc, form, reminder, own>>

\* action "отозвать", lines 2094-2137
Recall(a, g) ==
    /\ get_member(g, a)
    /\ rc = NoId
    /\ LET found == ApprovedOf(a)
       IN  IF found = <<>>
           THEN /\ reply' = "no_active"
                /\ UNCHANGED <<vacation_requests, rc>>
           ELSE IF vacation_requests[found[1]].start_date <= Date(now)
           THEN /\ reply' = "already_started"
                /\ UNCHANGED <<vacation_requests, rc>>
           ELSE /\ vacation_requests' = [vacation_requests EXCEPT ![found[1]] =
                        [@ EXCEPT !.status = "denied", !.force_recalled = TRUE]]
                /\ rc' = found[1]
                /\ UNCHANGED reply
    /\ UNCHANGED <<now, fixed, member_roles, request_order, vacation_data,
                   vacation_stats, ac, lc, er, view, form, reminder, disk, own>>

\* the message edits and the notification returned: lines 2196-2222
RecallDone ==
    /\ rc # NoId
    /\ LET data == vacation_requests[rc]
       IN  /\ vacation_data' = RemoveKey(vacation_data, rc)
           /\ vacation_stats' = update_vacation_stats(vacation_stats, data.user_id,
                                    data.duration_days, "cancelled", now)
    /\ disk' = save_requests(save_data(disk, vacation_requests, vacation_data'),
                             vacation_requests, request_order)
    /\ rc' = NoId
    /\ reply' = "none"
    /\ UNCHANGED <<now, fixed, member_roles, vacation_requests, request_order,
                   ac, lc, er, view, form, reminder, own>>

\* ------------------------------------------------------------ role service
\* A role is taken from a member on vacation by someone else on the server;
\* the bot sees it in member.roles (lines 1311, 1564).
MemberRoleRemoved(g, a, role) ==
    /\ get_member(g, a)
    /\ VacRole \in member_roles[g][a]
    /\ role \in member_roles[g][a] \ {VacRole}
    /\ member_roles' = [member_roles EXCEPT ![g][a] = @ \ {role}]
    /\ UNCHANGED <<now, fixed, vacation_requests, request_order, vacation_data,
                   vacation_stats, reply, ac, lc, handlers, reminder, disk, own>>

\* The vacation role is taken from a member by someone else on the server;
\* the bot sees it in user.roles (line 1500).
VacationRoleRemoved(g, a) ==
    /\ get_member(g, a)
    /\ VacRole \in member_roles[g][a]
    /\ member_roles' = [member_roles EXCEPT ![g][a] = @ \ {VacRole}]
    /\ UNCHANGED <<now, fixed, vacation_requests, request_order, vacation_data,
                   vacation_stats, reply, ac, lc, handlers, reminder, disk, own>>

\* ----------------------------------------------------------------- clock
\* No external call is outstanding when the clock is observed next.
Quiet ==
    /\ ac.pc = "idle" /\ lc.pc = "idle" /\ er = NoCall /\ rc = NoId
    /\ rm.pc \in {"idle", "failed"}

\* Time passes to the next observed instant.  Ephemeral replies and the
\* select view are deleted after at most 60 seconds (ephemeral_temp);
\* an interaction of a submission dialogue is answered within 15 minutes.
Advance(t) ==
    /\ Quiet
    /\ now' = t
    /\ reply' = "none"
    /\ view' = NoView
    /\ form' = {}
    /\ UNCHANGED <<fixed, member_roles, vacation_requests, request_order,
                   vacation_data, vacation_stats, ac, lc, er, rc, reminder, disk, own>>

\* Midnight passes within the minutes a dialogue is open (the duration
\* buttons live 60 seconds, line 725, the reason modal 10 minutes): the
\* dialogues whose date was accepted today are still open.
Midnight ==
    /\ Quiet
    /\ Date(now) < MaxDay
    /\ now' = (Date(now) + 1) * MinutesPerDay
    /\ reply' = "none"
    /\ view' = NoView
    /\ form' = {f \in form : Len(f) > 2 /\ f[Len(f)] = Date(now)}
    /\ UNCHANGED <<fixed, member_roles, vacation_requests, request_order,
                   vacation_data, vacation_stats, ac, lc, er, rc, reminder, disk, own>>

\* A quarter of an hour passes, whatever is suspended at the moment.
Tick ==
    /\ now % MinutesPerDay < MaxTicks * CheckAutoCloseMinutes
    /\ now' = now + CheckAutoCloseMinutes
    /\ reply' = "none"
    /\ view' = NoView
    /\ form' = {}
    /\ UNCHANGED <<fixed, member_roles, vacation_requests, request_order,
                   vacation_data, vacation_stats, ac, lc, er, rc, reminder, disk, own>>

\* midnight of the next day
NextDay ==
    /\ Date(now) < MaxDay
    /\ Advance((Date(now) + 1) * MinutesPerDay)

\* --------------------------------------------------------------- restart
\* The process ends at any point and is started again: lines 108-110 load
\* the two files into separate dicts, the tasks start anew, and every
\* suspended handler, open view and open dialogue is gone.  vacation_stats
\* and vacation_config are saved at every change (lines 221, 158).
Restart ==
    /\ vacation_requests' = disk.requests
    /\ request_order' = disk.order
    /\ vacation_data' = disk.data
    /\ own' = disk.recs
    /\ ac' = ACIdle
    /\ lc' = LCIdle
    /\ rm' = RMIdle
    /\ er' = NoCall
    /\ rc' = NoId
    /\ view' = NoView
    /\ form' = {}
    /\ reply' = "none"
    /\ UNCHANGED <<now, fixed, member_roles, vacation_stats, reminded, disk>>

\* ------------------------------------------------------------- bot.guilds
\* The bot is added to a second server: bot.guilds, which every pass
\* iterates (lines 1479, 1622, 1672), has one more guild from then on.
GuildJoin(g) ==
    /\ Quiet
    /\ g \notin SeqToSet(guilds)
    /\ guilds' = Append(guilds, g)
    /\ UNCHANGED <<now, vacation_config, member_roles, vacation_requests, request_order,
                   vacation_data, vacation_stats, reply, ac, lc, handlers, reminder, disk, own>>

\* ------------------------------------------------------------ cog_unload
\* VacationTasks.cog_unload, lines 1471-1474: Loop.cancel() cancels the
\* asyncio task of each loop.  A pass suspended in an await gets
\* CancelledError there; the handlers around the awaits are
\* `except Exception`, which does not catch it, so the pass ends at that
\* await and the loop is over.  The record keeps where the pass was.
cog_unload ==
    /\ lc.pc # "cancelled"
    /\ lc' = [lc EXCEPT !.pc = "cancelled"]
    /\ ac' = [ac EXCEPT !.pc = "cancelled"]
    /\ rm' = [rm EXCEPT !.pc = "cancelled"]
    /\ UNCHANGED <<now, fixed, member_roles, vacation_requests, request_order,
                   vacation_data, vacation_stats, reply, handlers, reminded, disk, own>>

\* ------------------------------------------------------------------ init
Init ==
    /\ now = 0
    /\ guilds = <<1>>
    /\ vacation_config = [g \in Guilds |-> [DefaultConfig EXCEPT !.vacation_role_id = VacRole]]
    /\ member_roles = [g \in Guilds |-> [a \in Actors |-> {"rank", "booster"}]]
    /\ vacation_requests = <<>>
    /\ request_order = <<>>
    /\ vacation_data = <<>>
    /\ vacation_stats = [a \in Actors |-> [m \in Months |-> [count |-> 0, total_days |-> 0]]]
    /\ reply = "none"
    /\ ac = ACIdle
    /\ lc = LCIdle
    /\ er = NoCall
    /\ view = NoView
    /\ rc = NoId
    /\ form = {}
    /\ rm = RMIdle
    /\ reminded = [id \in {} |-> 0]
    /\ disk = [requests |-> <<>>, order |-> <<>>, data |-> <<>>, recs |-> <<>>]
    /\ own = <<>>

Next ==
    \/ \E g \in SeqToSet(guilds), s \in 1..2, d \in {3} :
            Date(now) = 0 /\ Submit(1, g, Date(now) + s, d)
    \/ \E g \in SeqToSet(guilds) : SubmitRejected(1, g)
    \/ \E id \in DOMAIN vacation_requests \cup {NoId} : Approve(id)
    \/ \E id \in DOMAIN vacation_requests \cup {NoId} : Deny(id)
    \/ AutoCloseStart
    \/ AutoCloseResume
    \/ LifecycleStart
    \/ \E ok \in {TRUE} : LifecycleGrantDone(ok)
    \/ LifecycleStartedDone
    \/ \E ok \in {TRUE} : LifecycleRevokeDone(ok)
    \/ \E ok \in {TRUE} : LifecycleRestoreDone(ok)
    \/ LifecycleNotifyDone
    \/ LifecycleListsDone
    \/ \E g \in SeqToSet(guilds) : ReturnFromVacation(1, g)
    \/ \E id \in SeqToSet(view.vacations) : SelectCallback(id)
    \/ \E ok \in {TRUE} : EarlyReturnRevokeDone(ok)
    \/ \E ok \in {TRUE} : EarlyReturnRestoreDone(ok)
    \/ \E g \in SeqToSet(guilds) : ForceFinish(1, g)
    \/ \E g \in SeqToSet(guilds) : Recall(1, g)
    \/ RecallDone
    \/ \E g \in SeqToSet(guilds) : MemberRoleRemoved(g, 1, "rank")
    \/ NextDay

Spec == Init /\ [][Next]_vars

\* --------------------------------------------- review and auto-close only
\* the days observed by SpecReview and SpecAutoClose
ReviewClock == Date(now) < ReviewDays /\ NextDay

\* the ids a submission at instant 0 can produce
ReviewIds == {<<a, 0, k>> : a \in Actors, k \in 0..MaxReqs}

\* Two members, every duration, the configuration changing under way, over
\* ReviewDays days.
NextReview ==
    \/ \E a \in Actors, g \in SeqToSet(guilds), d \in Durations :
            Date(now) = 0 /\ Submit(a, g, Date(now) + 1, d)
    \/ \E a \in Actors, g \in SeqToSet(guilds) : SubmitRejected(a, g)
    \/ \E id \in DOMAIN vacation_requests \cup {NoId} : Approve(id)
    \/ \E id \in DOMAIN vacation_requests \cup {NoId} : Deny(id)
    \/ AutoCloseStart
    \/ AutoCloseResume
    \/ \E g \in SeqToSet(guilds), h \in SetupHours : vacation_setup(g, h, DefaultMaxPerMonth)
    \/ ReviewClock

SpecReview == Init /\ [][NextReview]_vars

\* ------------------------------------------- the auto-close task, fairly
\* One member; tasks.loop fires check_auto_close every 15 minutes, a
\* suspended message edit returns, and time passes.
NextAutoClose ==
    \/ \E g \in SeqToSet(guilds) : Date(now) = 0 /\ Submit(1, g, Date(now) + 1, 3)
    \/ \E id \in DOMAIN vacation_requests : Approve(id)
    \/ \E id \in DOMAIN vacation_requests : Deny(id)
    \/ AutoCloseStart
    \/ AutoCloseResume
    \/ \E g \in SeqToSet(guilds), h \in SetupHours : vacation_setup(g, h, DefaultMaxPerMonth)
    \/ ReviewClock

SpecAutoClose ==
    /\ Init
    /\ [][NextAutoClose]_vars
    /\ WF_vars(AutoCloseStart)
    /\ WF_vars(AutoCloseResume)
    /\ WF_vars(ReviewClock)

\* ------------------------------------------- the role service may fail
\* One member; every call of the role service either succeeds or raises
\* (disnake.Forbidden, disnake.HTTPException).
NextFail ==
    \/ \E g \in SeqToSet(guilds) :
            /\ Date(now) = 0
            /\ Len(request_order) < FailReqs
            /\ Submit(1, g, Date(now) + 1, 3)
    \/ \E id \in DOMAIN vacation_requests : Approve(id)
    \/ LifecycleStart
    \/ \E ok \in BOOLEAN : LifecycleGrantDone(ok)
    \/ LifecycleStartedDone
    \/ \E ok \in BOOLEAN : LifecycleRevokeDone(ok)
    \/ \E ok \in BOOLEAN : LifecycleRestoreDone(ok)
    \/ LifecycleNotifyDone
    \/ LifecycleListsDone
    \/ \E g \in SeqToSet(guilds) : ForceFinish(1, g)
    \/ \E ok \in BOOLEAN : EarlyReturnRevokeDone(ok)
    \/ \E ok \in BOOLEAN : EarlyReturnRestoreDone(ok)
    \/ \E g \in SeqToSet(guilds) : MemberRoleRemoved(g, 1, "rank")
    \/ NextDay

SpecFail == Init /\ [][NextFail]_vars

\* ------------------------------------------------------------ the ledger
\* One member, requests of 3 and 7 days submitted on the first day of a
\* month for the next day or for the next month, early return and recall,
\* over LedgerDays days (the month changes on day MonthLen).
LedgerClock ==
    /\ Date(now) < LedgerDays
    /\ Advance((Date(now) + 1) * MinutesPerDay)

NextLedger ==
    \/ \E g \in SeqToSet(guilds), s \in {1, MonthLen + 1}, d \in {3, 7} :
            Date(now) % MonthLen = 0 /\ Submit(1, g, Date(now) + s, d)
    \/ \E id \in DOMAIN vacation_requests : Approve(id)
    \/ LifecycleStart
    \/ LifecycleGrantDone(TRUE)
    \/ LifecycleStartedDone
    \/ LifecycleRevokeDone(TRUE)
    \/ LifecycleNotifyDone
    \/ LifecycleListsDone
    \/ \E g \in SeqToSet(guilds) : ForceFinish(1, g)
    \/ EarlyReturnRevokeDone(TRUE)
    \/ \E g \in SeqToSet(guilds) : Recall(1, g)
    \/ RecallDone
    \/ LedgerClock

SpecLedger == Init /\ [][NextLedger]_vars

\* ----------------------------------------------------------- eligibility
\* role lists an administrator gives to vacation_roles: nothing, a role the
\* members hold, a role no member holds
BannedChoices == {{}, {"booster"}}
RankChoices == {{}, {"rank"}, {"officer"}}
QuotaChoices == {1, 2}

EligibilityClock ==
    /\ Date(now) < EligibilityDays
    /\ Advance((Date(now) + 1) * MinutesPerDay)

\* One member opening and completing submission dialogues while requests
\* are approved and the configuration changes.
NextEligibility ==
    \/ \E g \in SeqToSet(guilds) : ApplyVacation(1, g)
    \/ \E g \in SeqToSet(guilds) : SubmitRejected(1, g)
    \/ \E g \in SeqToSet(guilds) : CompleteForm(1, g, Date(now) + 1, 3)
    \/ \E id \in DOMAIN vacation_requests : Approve(id)
    \/ \E g \in SeqToSet(guilds), q \in QuotaChoices :
            vacation_setup(g, DefaultAutoCloseHours, q)
    \/ \E g \in SeqToSet(guilds), b \in BannedChoices, r \in RankChoices :
            vacation_roles(g, b, r)
    \/ EligibilityClock

SpecEligibility == Init /\ [][NextEligibility]_vars

\* ------------------------------------------------------------ request ids
\* Two members submitting in any second of an instant, reviews, over
\* ReviewDays days.
NextIds ==
    \/ \E a \in Actors, g \in SeqToSet(guilds), s \in 1..2, d \in Durations, k \in 0..IdSeconds :
            SubmitAt(a, g, Date(now) + s, d, k)
    \/ \E id \in DOMAIN vacation_requests : Approve(id)
    \/ \E id \in DOMAIN vacation_requests : Deny(id)
    \/ ReviewClock

SpecIds == Init /\ [][NextIds]_vars

\* ---------------------------------------------------------- the reminders
\* One member with up to MaxReqs requests, the lifecycle and reminder tasks,
\* early return, and a member who may not accept direct messages.
NextReminder ==
    \/ \E g \in SeqToSet(guilds), s \in 1..2 :
            Date(now) = 0 /\ Submit(1, g, Date(now) + s, 3)
    \/ \E id \in DOMAIN vacation_requests : Approve(id)
    \/ LifecycleStart
    \/ LifecycleGrantDone(TRUE)
    \/ LifecycleStartedDone
    \/ LifecycleRevokeDone(TRUE)
    \/ LifecycleNotifyDone
    \/ LifecycleListsDone
    \/ ReminderStart
    \/ \E ok \in BOOLEAN : ReminderSendDone(ok)
    \/ \E g \in SeqToSet(guilds) : ForceFinish(1, g)
    \/ EarlyReturnRevokeDone(TRUE)
    \/ NextDay

SpecReminder == Init /\ [][NextReminder]_vars

\* ------------------------------------------------------------- restarts
\* One member, reviews, the auto-close task and restarts of the process.
\* The handlers that go through vacation_data are taken only while its
\* entries are the requests themselves.
NextRestart ==
    \/ \E g \in SeqToSet(guilds) : Date(now) = 0 /\ Submit(1, g, Date(now) + 1, 3)
    \/ \E id \in DOMAIN vacation_requests : DOMAIN own = {} /\ Approve(id)
    \/ \E id \in DOMAIN vacation_requests : Deny(id)
    \/ AutoCloseStart
    \/ AutoCloseResume
    \/ Restart
    \/ ReviewClock

SpecRestart == Init /\ [][NextRestart]_vars

\* ------------------------------------------------------------ late review
\* One request for the next day, the time for reviews set to 24 or 48
\* hours, the auto-close and lifecycle tasks.
NextExpire ==
    \/ \E g \in SeqToSet(guilds) :
            /\ Date(now) = 0
            /\ Len(request_order) < FailReqs
            /\ Submit(1, g, Date(now) + 1, 3)
    \/ \E g \in SeqToSet(guilds), h \in SetupHours : vacation_setup(g, h, DefaultMaxPerMonth)
    \/ \E id \in DOMAIN vacation_requests : Approve(id)
    \/ AutoCloseStart
    \/ AutoCloseResume
    \/ LifecycleStart
    \/ LifecycleGrantDone(TRUE)
    \/ LifecycleStartedDone
    \/ LifecycleRevokeDone(TRUE)
    \/ LifecycleNotifyDone
    \/ LifecycleListsDone
    \/ NextDay

SpecExpire == Init /\ [][NextExpire]_vars

\* ------------------------------------------------------------ the dialogue
\* One member going through one submission dialogue at a time, step by
\* step, with dates of any day or of no date format, while days pass.
NextForm ==
    \/ \E g \in SeqToSet(guilds) : form = {} /\ ApplyVacation(1, g)
    \/ \E g \in SeqToSet(guilds), sd \in (0..MaxDay) \cup {None} : EnterStartDate(1, g, sd)
    \/ \E g \in SeqToSet(guilds), sd \in 0..MaxDay, e \in 0..MaxDay, d \in Durations :
            CompleteDated(1, g, sd, e, d)
    \/ \E id \in DOMAIN vacation_requests : Deny(id)
    \/ Midnight
    \/ NextDay

SpecForm == Init /\ [][NextForm]_vars

\* --------------------------------------------------------------- shutdown
\* One member with up to MaxReqs requests, the lifecycle and auto-close
\* tasks, and the cog unloaded at any moment.
NextUnload ==
    \/ \E g \in SeqToSet(guilds), s \in 1..2 :
            Date(now) = 0 /\ Submit(1, g, Date(now) + s, 3)
    \/ \E id \in DOMAIN vacation_requests : Approve(id)
    \/ AutoCloseStart
    \/ AutoCloseResume
    \/ LifecycleStart
    \/ LifecycleGrantDone(TRUE)
    \/ LifecycleStartedDone
    \/ LifecycleRevokeDone(TRUE)
    \/ LifecycleNotifyDone
    \/ LifecycleListsDone
    \/ cog_unload
    \/ NextDay

SpecUnload == Init /\ [][NextUnload]_vars

\* ------------------------------------------------------------ two guilds
\* The bot in two servers with their own settings: member 2 belongs to
\* both, member 1 to the first only; one request each at most.
NextGuilds ==
    \/ \E g \in Guilds : GuildJoin(g)
    \/ \E g \in SeqToSet(guilds), h \in SetupHours : vacation_setup(g, h, DefaultMaxPerMonth)
    \/ \E a \in Actors, g \in SeqToSet(guilds) :
            /\ Date(now) = 0
            /\ \A id \in DOMAIN vacation_requests : vacation_requests[id].user_id # a
            /\ Submit(a, g, Date(now) + 1, 3)
    \/ \E id \in DOMAIN vacation_requests : Approve(id)
    \/ AutoCloseStart
    \/ AutoCloseResume
    \/ LifecycleStart
    \/ LifecycleGrantDone(TRUE)
    \/ LifecycleStartedDone
    \/ LifecycleRevokeDone(TRUE)
    \/ LifecycleNotifyDone
    \/ LifecycleListsDone
    \/ NextDay

SpecGuilds == Init /\ [][NextGuilds]_vars

\* ------------------------------------------------------------ slow passes
\* One request, the three tasks, and external calls that take any number
\* of quarter hours to return.
NextPasses ==
    \/ \E g \in SeqToSet(guilds) :
            /\ Date(now) = 0
            /\ Len(request_order) < FailReqs
            /\ Submit(1, g, Date(now) + 1, 3)
    \/ \E id \in DOMAIN vacation_requests : Approve(id)
    \/ AutoCloseStart
    \/ AutoCloseResume
    \/ LifecycleStart
    \/ LifecycleGrantDone(TRUE)
    \/ LifecycleStartedDone
    \/ LifecycleRevokeDone(TRUE)
    \/ LifecycleNotifyDone
    \/ LifecycleListsDone
    \/ ReminderStart
    \/ \E ok \in BOOLEAN : ReminderSendDone(ok)
    \/ Tick
    \/ NextDay

SpecPasses == Init /\ [][NextPasses]_vars

\* ------------------------------------------------- settings during a pass
\* Two servers whose time for reviews is set to 24 or 48 hours at any
\* moment, a pass suspended or not; one request per member, submitted on
\* the first or the second day; the auto-close task.
NextConfig ==
    \/ \E g \in Guilds : GuildJoin(g)
    \/ \E g \in SeqToSet(guilds), h \in SetupHours : vacation_setup(g, h, DefaultMaxPerMonth)
    \/ \E a \in Actors, g \in SeqToSet(guilds) :
            /\ Date(now) <= 1
            /\ \A id \in DOMAIN vacation_requests : vacation_requests[id].user_id # a
            /\ Submit(a, g, Date(now) + 1, 3)
    \/ AutoCloseStart
    \/ AutoCloseResume
    \/ ReviewClock

SpecConfig == Init /\ [][NextConfig]_vars

\* ----------------------------------------------------------- the snapshot
\* One request, lifecycle passes whose role grant may fail, and roles
\* taken from the member by others on the server.
NextSnapshot ==
    \/ \E g \in SeqToSet(guilds) :
            /\ Date(now) = 0
            /\ Len(request_order) < FailReqs
            /\ Submit(1, g, Date(now) + 1, 3)
    \/ \E id \in DOMAIN vacation_requests : Approve(id)
    \/ LifecycleStart
    \/ \E ok \in BOOLEAN : LifecycleGrantDone(ok)
    \/ LifecycleStartedDone
    \/ LifecycleRevokeDone(TRUE)
    \/ LifecycleRestoreDone(TRUE)
    \/ LifecycleNotifyDone
    \/ LifecycleListsDone
    \/ \E g \in SeqToSet(guilds) : MemberRoleRemoved(g, 1, "rank")
    \/ \E g \in SeqToSet(guilds) : VacationRoleRemoved(g, 1)
    \/ NextDay

SpecSnapshot == Init /\ [][NextSnapshot]_vars

\* ================================================================ claims

\* C1: the terminal statuses (denied, which covers recalled; cancelled, i.e.
\* auto-closed; completed, i.e. expired; early_return) are absorbing: a
\* request that has one of them keeps it in every later step.
C1_TerminalAbsorbing ==
    [][\A id \in DOMAIN vacation_requests :
          vacation_requests[id].status \in {"denied", "cancelled", "completed", "early_return"}
              => vacation_requests'[id].status = vacation_requests[id].status]_vars

\* C2: Approve or Deny attempted on an id that is not in the request store,
\* or on a request that is not pending, changes neither the requests (status
\* and review fields included), nor the active collection, nor the ledger,
\* and answers with an error.
C2_ReviewNoOp ==
    [][\A id \in DOMAIN vacation_requests \cup {NoId} :
          ( /\ Approve(id) \/ Deny(id)
            /\ \/ id \notin DOMAIN vacation_requests
               \/ vacation_requests[id].status # "pending" )
          => /\ UNCHANGED <<vacation_requests, vacation_data, vacation_stats>>
             /\ reply' = IF id \in DOMAIN vacation_requests
                         THEN "already_reviewed" ELSE "not_found"]_vars

\* a review attempt on a request that has expired or was returned early was
\* answered with the error
C2_Witness ==
    /\ reply = "already_reviewed"
    /\ \E id \in DOMAIN vacation_requests :
          vacation_requests[id].status \in {"completed", "early_return"}

\* C3: Approve on a pending request sets status approved and the review
\* (reviewer, time, comment) and adds exactly 1 to count and duration_days to
\* total_days of the actor's ledger entry of the current month, leaving every
\* other ledger entry alone; a ledger count grows only in a step that takes
\* a request of that actor from pending to approved, and no request ever
\* becomes pending again, so each request is credited at most once.
C3_ApproveCredits ==
    [][/\ \A id \in DOMAIN vacation_requests :
            (Approve(id) /\ vacation_requests[id].status = "pending")
            => LET data == vacation_requests[id]
                   a == data.user_id
                   m == get_month_key(now)
               IN  /\ vacation_requests'[id] =
                         [data EXCEPT !.status = "approved", !.reviewed_by = ModId,
                                      !.reviewed_at = now, !.review_comment = "ok"]
                   /\ vacation_stats'[a][m].count = vacation_stats[a][m].count + 1
                   /\ vacation_stats'[a][m].total_days =
                         vacation_stats[a][m].total_days + data.duration_days
                   /\ \A b \in Actors, k \in Months :
                         <<b, k>> # <<a, m>> => vacation_stats'[b][k] = vacation_stats[b][k]
       /\ \A a \in Actors, m \in Months :
            vacation_stats'[a][m].count > vacation_stats[a][m].count
            => \E id \in DOMAIN vacation_requests :
                  /\ vacation_requests[id].user_id = a
                  /\ vacation_requests[id].status = "pending"
                  /\ vacation_requests'[id].status = "approved"
                  /\ \A other \in DOMAIN vacation_requests \ {id} :
                        vacation_requests'[other] = vacation_requests[other]
       /\ \A id \in DOMAIN vacation_requests :
            vacation_requests[id].status # "pending"
            => vacation_requests'[id].status # "pending"]_vars

\* both actors have an approved request, one of 14 days, credited to them
C3_Witness ==
    \E id1, id2 \in DOMAIN vacation_requests :
        /\ vacation_requests[id1].user_id # vacation_requests[id2].user_id
        /\ vacation_requests[id1].status = "approved"
        /\ vacation_requests[id2].status = "approved"
        /\ vacation_requests[id1].duration_days = 14
        /\ vacation_stats[vacation_requests[id1].user_id][get_month_key(now)]
              = [count |-> 1, total_days |-> 14]

\* C4: Deny on a pending request sets status denied and the review with the
\* reason, and leaves the ledger and the active collection as they were.
C4_DenyFrame ==
    [][\A id \in DOMAIN vacation_requests :
          (Deny(id) /\ vacation_requests[id].status = "pending")
          => /\ vacation_requests'[id] =
                   [vacation_requests[id] EXCEPT !.status = "denied",
                        !.reviewed_by = ModId, !.reviewed_at = now, !.deny_reason = "no"]
             /\ UNCHANGED <<vacation_stats, vacation_data>>]_vars

\* a request was denied while the same actor's other request was approved
\* and credited
C4_Witness ==
    \E id1, id2 \in DOMAIN vacation_requests :
        /\ vacation_requests[id1].user_id = vacation_requests[id2].user_id
        /\ vacation_requests[id1].status = "denied"
        /\ vacation_requests[id1].deny_reason = "no"
        /\ vacation_requests[id2].status = "approved"
        /\ vacation_stats[vacation_requests[id1].user_id][get_month_key(now)].count = 1
        /\ vacation_data = <<id2>>

\* C5: a request that an auto-close pass has closed is left unchanged by
\* every later step, further auto-close passes included, and no step of an
\* auto-close pass changes the ledger.
C5_AutoCloseIdempotent ==
    [][/\ \A id \in DOMAIN vacation_requests :
            vacation_requests[id].status = "cancelled"
            => vacation_requests'[id] = vacation_requests[id]
       /\ (AutoCloseStart \/ AutoCloseResume) => UNCHANGED vacation_stats]_vars

\* a pass has run to its end over a request closed by an earlier pass
C5_Witness ==
    /\ ac.pc = "idle"
    /\ \E id \in DOMAIN vacation_requests :
          /\ vacation_requests[id].status = "cancelled"
          /\ vacation_requests[id].auto_closed
          /\ vacation_requests[id].auto_closed_at < now

\* C6: an auto-close pass closes a pending request exactly when the clock
\* has reached the auto_close_at stored on the request at submission: no
\* request is closed before it, and a pass that runs to its end leaves no
\* pending request behind whose stored auto_close_at has been reached.
C6_StoredDeadline ==
    [][/\ \A id \in DOMAIN vacation_requests :
            ( /\ vacation_requests[id].status = "pending"
              /\ vacation_requests'[id].status = "cancelled" )
            => now >= vacation_requests[id].auto_close_at
       /\ ( /\ AutoCloseStart \/ AutoCloseResume
            /\ ac'.pc = "idle" )
          => \A id \in DOMAIN vacation_requests :
                vacation_requests'[id].status = "pending"
                => now < vacation_requests[id].auto_close_at]_vars

\* C7 as stated: every request that is pending when its stored auto_close_at
\* is reached is eventually auto-closed.
C7_OverdueClosed ==
    \A id \in ReviewIds :
        ( /\ id \in DOMAIN vacation_requests
          /\ vacation_requests[id].status = "pending"
          /\ now >= vacation_requests[id].auto_close_at )
        ~> ( /\ id \in DOMAIN vacation_requests
             /\ vacation_requests[id].status = "cancelled" )

\* C7, amended: every request that is pending when its stored auto_close_at
\* is reached eventually stops being pending (it is auto-closed by a later
\* pass unless a reviewer approves or denies it first), and only a step of
\* the auto-close pass on a pending request makes a request cancelled.
C7_OverdueDecided ==
    /\ \A id \in ReviewIds :
          ( /\ id \in DOMAIN vacation_requests
            /\ vacation_requests[id].status = "pending"
            /\ now >= vacation_requests[id].auto_close_at )
          ~> ( /\ id \in DOMAIN vacation_requests
               /\ vacation_requests[id].status # "pending" )
    /\ [][\A id \in DOMAIN vacation_requests :
            ( /\ vacation_requests[id].status # "cancelled"
              /\ vacation_requests'[id].status = "cancelled" )
            => /\ vacation_requests[id].status = "pending"
               /\ AutoCloseStart \/ AutoCloseResume]_vars

\* a request was auto-closed after its stored auto_close_at, another was
\* approved in time
C7_Witness ==
    \E id1, id2 \in DOMAIN vacation_requests :
        /\ vacation_requests[id1].status = "cancelled"
        /\ vacation_requests[id1].auto_closed
        /\ vacation_requests[id1].auto_closed_at >= vacation_requests[id1].auto_close_at
        /\ vacation_requests[id2].status = "approved"
        /\ vacation_requests[id2].reviewed_at < vacation_requests[id2].auto_close_at

\* C8: the vacation role is granted to a member only by the lifecycle pass,
\* for a request of that member whose start_date is not after the current
\* day, and a request becomes completed only on or after its end_date.
C8_NoTimeTravel ==
    [][/\ \A g \in Guilds, a \in Actors :
            (VacRole \notin member_roles[g][a] /\ VacRole \in member_roles'[g][a])
            => /\ lc.pc = "grant"
               /\ g = guilds[lc.gi]
               /\ vacation_requests[lc.cur].user_id = a
               /\ vacation_requests[lc.cur].start_date <= Date(now)
       /\ \A id \in DOMAIN vacation_requests :
            ( /\ vacation_requests[id].status # "completed"
              /\ vacation_requests'[id].status = "completed" )
            => vacation_requests[id].end_date <= Date(now)]_vars

\* a request that was activated on its start day has been completed
C8_Witness ==
    \E id \in DOMAIN vacation_requests :
        /\ vacation_requests[id].status = "completed"
        /\ vacation_requests[id].saved_roles # {}
        /\ vacation_requests[id].end_date <= Date(now)

\* C9: activation catches up: when a lifecycle pass has gone through the
\* active collection, every request in it that was approved before the
\* pass, whose start_date has been reached and whose end_date has not, and
\* whose actor is a member, has its actor holding the vacation role.
C9_CatchUp ==
    [][(lc'.pc = "lists" /\ lc' # lc)
       => \A id \in SeqToSet(vacation_data') :
             LET data == vacation_requests'[id]
                 g == guilds[lc'.gi]
             IN  ( /\ data.status = "approved"
                   /\ data.reviewed_at < lc'.now
                   /\ data.start_date <= Date(lc'.now)
                   /\ Date(lc'.now) < data.end_date
                   /\ get_member(g, data.user_id) )
                 => VacRole \in member_roles'[g][data.user_id]]_vars

C11_FailedRevokeAborts ==
    [][/\ ( /\ lc.pc = "revoke"
            /\ lc' # lc
            /\ VacRole \in member_roles'[guilds[lc.gi]][vacation_requests[lc.cur].user_id] )
          => /\ lc'.cur # lc.cur
             /\ vacation_requests'[lc.cur].status = vacation_requests[lc.cur].status
       /\ ( /\ er.pc = "remove"
            /\ er' # er
            /\ VacRole \in member_roles'[er.guild][vacation_requests[er.id].user_id] )
          => vacation_requests'[er.id].status = vacation_requests[er.id].status]_vars

\* C12: the actor of a request that is completed or returned early does not
\* hold the vacation role, unless another request of the same actor is
\* approved at that moment.
C12_RoleAbsentAfterEnd ==
    \A id \in DOMAIN vacation_requests :
        LET data == vacation_requests[id]
        IN  ( /\ data.status \in {"completed", "early_return"}
              /\ \A other \in DOMAIN vacation_requests :
                    vacation_requests[other].user_id = data.user_id
                    => vacation_requests[other].status # "approved" )
            => VacRole \notin member_roles[data.guild_id][data.user_id]

\* C13: an early return of an approved request with days_elapsed days since
\* its start_date, 0 <= days_elapsed <= duration_days, takes exactly
\* duration_days - days_elapsed off the actor's total_days.
C13_EarlyReturnConservation ==
    [][\A id \in DOMAIN vacation_requests :
          LET data == vacation_requests[id]
              days_elapsed == Date(now) - data.start_date
          IN  ( /\ data.status = "approved"
                /\ vacation_requests'[id].status = "early_return"
                /\ 0 <= days_elapsed
                /\ days_elapsed <= data.duration_days )
              => get_user_stats(vacation_stats', data.user_id).total_days
                   = get_user_stats(vacation_stats, data.user_id).total_days
                       - (data.duration_days - days_elapsed)]_vars

\* C14: an early return, at whatever day, increases no total_days of the
\* ledger and takes at most duration_days off the actor's total_days.
C14_EarlyReturnDebitBounded ==
    [][\A id \in DOMAIN vacation_requests :
          LET data == vacation_requests[id]
          IN  ( /\ data.status = "approved"
                /\ vacation_requests'[id].status = "early_return" )
              => /\ \A a \in Actors, m \in Months :
                       vacation_stats'[a][m].total_days <= vacation_stats[a][m].total_days
                 /\ get_user_stats(vacation_stats, data.user_id).total_days
                       - get_user_stats(vacation_stats', data.user_id).total_days
                          <= data.duration_days]_vars

\* C15: a debit of d >= 0 days (the recall of a request, d = duration_days;
\* an early return after days_used > 0 days, d = duration_days - days_used)
\* leaves count = max(count - 1, 0) and total_days = max(total_days - d, 0)
\* in the actor's entry of the current month, and no count or total_days is
\* ever negative.
C15_DebitClamps ==
    [][/\ \A id \in DOMAIN vacation_requests :
            LET data == vacation_requests[id]
                days_used == Date(now) - data.start_date
                d == IF rc = id THEN data.duration_days
                     ELSE data.duration_days - days_used
                old == vacation_stats[data.user_id][get_month_key(now)]
                new == vacation_stats'[data.user_id][get_month_key(now)]
            IN  ( /\ \/ rc = id /\ rc' = NoId
                     \/ /\ data.status # "early_return"
                        /\ vacation_requests'[id].status = "early_return"
                        /\ days_used > 0
                  /\ d >= 0 )
                => /\ new.count = IF old.count - 1 > 0 THEN old.count - 1 ELSE 0
                   /\ new.total_days = IF old.total_days - d > 0
                                       THEN old.total_days - d ELSE 0
       /\ \A a \in Actors, m \in Months :
            vacation_stats'[a][m].count >= 0 /\ vacation_stats'[a][m].total_days >= 0]_vars

\* C16: a recall goes through only for an approved request whose start_date
\* is after today; it makes the request denied with force_recalled set, and
\* when it is done the request is out of the active collection and the
\* actor's ledger is lower by duration_days and by one vacation; a recall
\* that is refused changes no request and no ledger entry.
C16_Recall ==
    [][/\ (rc = NoId /\ rc' # NoId)
          => /\ vacation_requests[rc'].status = "approved"
             /\ Date(now) < vacation_requests[rc'].start_date
             /\ vacation_requests'[rc'].status = "denied"
             /\ vacation_requests'[rc'].force_recalled
       /\ (rc # NoId /\ rc' = NoId)
          => LET data == vacation_requests[rc]
                 old == get_user_stats(vacation_stats, data.user_id)
                 new == get_user_stats(vacation_stats', data.user_id)
             IN  /\ rc \notin SeqToSet(vacation_data')
                 /\ new.total_days = old.total_days - data.duration_days
                 /\ new.total_vacations = old.total_vacations - 1
       /\ ( /\ \E g \in SeqToSet(guilds), a \in Actors : Recall(a, g)
            /\ reply' \in {"no_active", "already_started"} )
          => UNCHANGED <<vacation_requests, vacation_data, vacation_stats>>]_vars

C18_InsertOnlyWhenEligible ==
    [][\A id \in DOMAIN vacation_requests' \ DOMAIN vacation_requests :
        can_take_vacation(vacation_requests'[id].user_id,
                          vacation_requests'[id].guild_id) = "ok"]_vars

\* C19: approving a pending request succeeds whatever the author's count of
\* this month and max_vacations_per_month are.
C19_ApproveIgnoresQuota ==
    [][\A id \in DOMAIN vacation_requests :
        (Approve(id) /\ vacation_requests[id].status = "pending")
            => /\ vacation_requests'[id].status = "approved"
               /\ id \in SeqToSet(vacation_data')
               /\ reply' = "none"]_vars

\* a request has just been approved and its author's count of this month is
\* above max_vacations_per_month
C19_Witness ==
    \E id \in DOMAIN vacation_requests :
        LET data == vacation_requests[id]
        IN  /\ data.status = "approved"
            /\ data.reviewed_at = now
            /\ reply = "none"
            /\ vacation_stats[data.user_id][get_month_key(now)].count
                    > get_config(data.guild_id).max_vacations_per_month

\* C20: with max_vacations_per_month never changed, no member's count of any
\* month exceeds it.
C20_CountWithinQuota ==
    \A g \in SeqToSet(guilds) : \A a \in Members(g), m \in Months :
        vacation_stats[a][m].count <= get_config(g).max_vacations_per_month

\* C21: every successful submission adds a new key to vacation_requests and
\* replaces no stored request, also when the same member completes two
\* submissions in one second.
C21_IdsNeverReused ==
    [][\A a \in Actors, g \in Guilds, s \in 1..2, d \in Durations, k \in 0..IdSeconds :
        SubmitAt(a, g, Date(now) + s, d, k)
            => /\ Cardinality(DOMAIN vacation_requests') = Cardinality(DOMAIN vacation_requests) + 1
               /\ \A id \in DOMAIN vacation_requests :
                    vacation_requests'[id] = vacation_requests[id]]_vars

\* C22: in every state a request has no review (reviewed_by and reviewed_at
\* are None) exactly when its status is pending.
C22_ReviewIffPending ==
    \A id \in DOMAIN vacation_requests :
        LET data == vacation_requests[id]
        IN  (data.reviewed_by = None /\ data.reviewed_at = None)
                <=> data.status = "pending"

\* C23: over any sequence of reminder passes a request is reminded at most
\* once: a reminder is started only for an approved request with one day
\* left and reminder_sent false, reminder_sent never goes back to false, and
\* delivering the reminder leaves the status alone.
C23_OneReminder ==
    [][/\ \A id \in DOMAIN reminded' : reminded'[id] <= 1
       /\ \A id \in DOMAIN vacation_requests :
            vacation_requests[id].reminder_sent => vacation_requests'[id].reminder_sent
       /\ (rm'.pc = "send" /\ rm' # rm)
            => LET data == vacation_requests'[rm'.cur]
               IN  /\ data.status = "approved"
                   /\ rm'.cur \in SeqToSet(vacation_data')
                   /\ data.end_date - Date(now) = 1
                   /\ ~data.reminder_sent
       /\ reminded' # reminded
            => /\ vacation_requests'[rm.cur].status = vacation_requests[rm.cur].status
               /\ vacation_requests'[rm.cur].reminder_sent
    ]_vars

\* a request reminded the day before is still approved on its last day, the
\* reminder task idle
C23_Witness ==
    \E id \in DOMAIN reminded :
        /\ reminded[id] = 1
        /\ vacation_requests[id].status = "approved"
        /\ vacation_requests[id].reminder_sent
        /\ rm.pc = "idle"
        /\ reply = "none"
        /\ vacation_requests[id].end_date = Date(now)

\* C24: in every state, also after a restart has loaded both files, a
\* request is an entry of vacation_data exactly when its status in
\* vacation_requests is approved, and the two entries have the same status.
C24_ActiveSetDerived ==
    \A id \in DOMAIN vacation_requests \cup SeqToSet(vacation_data) :
        LET in_data == id \in SeqToSet(vacation_data)
            entry == IF id \in DOMAIN own THEN own[id] ELSE vacation_requests[id]
        IN  /\ id \in DOMAIN vacation_requests
            /\ in_data <=> vacation_requests[id].status = "approved"
            /\ in_data => entry.status = vacation_requests[id].status

\* C25: a restart in the middle of an auto-close pass keeps every request
\* the pass has finished with (closed, and not the one whose message edit
\* is outstanding) in the state the pass gave it.
C25_CrashDurable ==
    [][Restart =>
        \A id \in DOMAIN vacation_requests :
            (/\ vacation_requests[id].auto_closed
             /\ ~(ac.pc = "edit" /\ ac.cur = id))
                => /\ id \in DOMAIN vacation_requests'
                   /\ vacation_requests'[id].status = vacation_requests[id].status
                   /\ vacation_requests'[id].auto_closed]_vars

\* C26: a request that an early return has ended is never ended by the
\* lifecycle pass as well, nor the other way round: no step takes a request
\* from early_return to completed or from completed to early_return.
C26_NoInterleaving ==
    [][\A id \in DOMAIN vacation_requests :
        LET before == vacation_requests[id].status
            after == vacation_requests'[id].status
        IN  /\ ~(before = "early_return" /\ after = "completed")
            /\ ~(before = "completed" /\ after = "early_return")]_vars

\* C27: no failure on one request and no change of vacation_data made while
\* a pass is suspended ends a periodic task: check_reminders is never left
\* by an exception.
C27_TaskNeverFails == rm.pc # "failed"

\* C28: the lifecycle pass completes only requests whose vacation was
\* started; a vacation is started on its start day only, so a request
\* approved after its start day is never completed by the pass.
C28_ExpireOnlyStarted ==
    [][\A id \in DOMAIN vacation_requests :
        (/\ vacation_requests[id].status = "approved"
         /\ vacation_requests'[id].status = "completed")
            => Date(vacation_requests[id].reviewed_at) <= vacation_requests[id].start_date
    ]_vars

\* C29: an early return or forced finish is carried out only for a vacation
\* that has started: a request whose start_date is still ahead keeps its
\* status.
C29_EarlyReturnOnlyStarted ==
    [][\A id \in DOMAIN vacation_requests :
        (/\ vacation_requests[id].status # "early_return"
         /\ vacation_requests'[id].status = "early_return")
            => vacation_requests[id].start_date <= Date(now)]_vars

\* C30: every stored request has end_date = start_date + duration_days, a
\* duration of 3, 7 or 14 days, and a start_date after the day of
\* created_at.
C30_StoredPeriod ==
    \A id \in DOMAIN vacation_requests :
        LET data == vacation_requests[id]
        IN  /\ data.end_date = data.start_date + data.duration_days
            /\ data.duration_days \in Durations
            /\ data.start_date > Date(data.created_at)

\* C31: a stored request keeps its id, user_id, start_date, end_date,
\* duration_days and created_at in every step, whatever operation or pass
\* takes it.
C31_ImmutableFields ==
    [][\A id \in DOMAIN vacation_requests :
        /\ id \in DOMAIN vacation_requests'
        /\ \A f \in {"user_id", "start_date", "end_date", "duration_days", "created_at"} :
              vacation_requests'[id][f] = vacation_requests[id][f]]_vars

\* C32: after the cog is unloaded no request is left in the middle of a
\* transition: the lifecycle pass was not stopped on a request whose actor
\* it had already taken the vacation role from while the request is still
\* approved in memory, nor the auto-close pass on a request it had closed
\* in memory while the file still shows it pending.
C32_CleanShutdown ==
    /\ (lc.pc = "cancelled" /\ lc.cur # NoId)
          => LET data == vacation_requests[lc.cur]
             IN  ~( /\ data.status = "approved"
                    /\ has_ended(data, lc.now)
                    /\ data.saved_roles # {}
                    /\ VacRole \notin member_roles[guilds[lc.gi]][data.user_id] )
    /\ (ac.pc = "cancelled" /\ ac.cur # NoId)
          => ~( /\ vacation_requests[ac.cur].status = "cancelled"
                /\ disk.requests[ac.cur].status = "pending" )

\* C33: the iteration of a pass for one guild takes only requests of that
\* guild: a request is auto-closed, activated, or completed only in the
\* iteration of the guild it was submitted in.
C33_GuildPartition ==
    [][/\ \A id \in DOMAIN vacation_requests :
            ( /\ vacation_requests[id].status = "pending"
              /\ vacation_requests'[id].status = "cancelled" )
            => /\ guilds[ac'.gi] = vacation_requests[id].guild_id
               /\ ac'.hours = get_config(vacation_requests[id].guild_id).auto_close_hours
       /\ (lc' # lc /\ lc'.cur # NoId)
            => guilds[lc'.gi] = vacation_requests[lc'.cur].guild_id
       /\ \A id \in DOMAIN vacation_requests :
            ( /\ vacation_requests[id].status = "approved"
              /\ vacation_requests'[id].status = "completed" )
            => guilds[lc.gi] = vacation_requests[id].guild_id]_vars

C35_ConfigSnapshot ==
    [][(ac.pc = "edit" /\ ac' = ac /\ vacation_config' # vacation_config)
        => ac_scan(ac.gi, ac.now, ac.hours, ac.items)'
              = ac_scan(ac.gi, ac.now, ac.hours, ac.items)]_vars

\* C36: saved_roles is empty while the request is pending, a captured
\* (non-empty) saved_roles is never replaced by another value, and a pass
\* starts the activation of a request (the capture, the grant and the
\* notification that follows it) only if nothing has been captured for it.
C36_SnapshotOnce ==
    [][/\ \A id \in DOMAIN vacation_requests :
            /\ vacation_requests[id].status = "pending"
                  => vacation_requests[id].saved_roles = {}
            /\ vacation_requests[id].saved_roles # {}
                  => vacation_requests'[id].saved_roles = vacation_requests[id].saved_roles
       /\ (lc' # lc /\ lc'.pc = "grant")
            => vacation_requests[lc'.cur].saved_roles = {}]_vars

\* C37: a pending request is decided once: a request that is not pending
\* never becomes pending again and is left as it is, with the ledger, by
\* every later Approve or Deny of it and by every step of an auto-close
\* pass; no request is both reviewed and auto-closed; and a ledger count
\* grows only in the step that approves a pending request.
C37_DecidedOnce ==
    [][/\ \A id \in DOMAIN vacation_requests :
            LET data == vacation_requests[id]
                after == vacation_requests'[id]
            IN  /\ data.status # "pending" => after.status # "pending"
                /\ ( /\ data.status # "pending"
                     /\ Approve(id) \/ Deny(id) \/ AutoCloseStart \/ AutoCloseResume )
                   => after = data
                /\ (data.status # "pending" /\ (Approve(id) \/ Deny(id)))
                   => UNCHANGED vacation_stats
                /\ ~(after.auto_closed /\ after.reviewed_by # None)
                /\ after.auto_closed => after.status = "cancelled"
       /\ \A a \in Actors, m \in Months :
            vacation_stats'[a][m].count > vacation_stats[a][m].count
            => \E id \in DOMAIN vacation_requests :
                  /\ vacation_requests[id].user_id = a
                  /\ vacation_requests[id].status = "pending"
                  /\ Approve(id)]_vars

\* with the auto-close pass suspended on the request it has just closed, a
\* review of that request was refused, and another request is approved
C37_Witness ==
    /\ ac.pc = "edit"
    /\ reply = "already_reviewed"
    /\ vacation_requests[ac.cur].status = "cancelled"
    /\ vacation_requests[ac.cur].reviewed_by = None
    /\ \E id \in DOMAIN vacation_requests :
          /\ vacation_requests[id].status = "approved"
          /\ ~vacation_requests[id].auto_closed

\* C38: a restart keeps every review: a request that is approved or denied
\* when the process ends has the same status and the same reviewer in the
\* vacation_requests that the new process loads.
C38_ReviewDurable ==
    [][Restart =>
        \A id \in DOMAIN vacation_requests :
            vacation_requests[id].status \in {"approved", "denied"}
                => /\ id \in DOMAIN vacation_requests'
                   /\ vacation_requests'[id].status = vacation_requests[id].status
                   /\ vacation_requests'[id].reviewed_by = vacation_requests[id].reviewed_by]_vars

\* C39: the debit of a request goes to the ledger entry of the month in
\* which the request was approved: an early return changes no entry of
\* another month, and a recall takes one vacation and duration_days off
\* that entry and changes no other.
C39_DebitSameBucket ==
    [][\A id \in DOMAIN vacation_requests :
          LET data == vacation_requests[id]
              a == data.user_id
              M == get_month_key(data.reviewed_at)
              recalled == rc = id /\ rc' = NoId
              returned == /\ data.status = "approved"
                          /\ vacation_requests'[id].status = "early_return"
          IN  (recalled \/ returned)
              => /\ \A m \in Months \ {M} : vacation_stats'[a][m] = vacation_stats[a][m]
                 /\ recalled =>
                       vacation_stats'[a][M] =
                           [count |-> vacation_stats[a][M].count - 1,
                            total_days |-> vacation_stats[a][M].total_days
                                               - data.duration_days]]_vars

\* C40: the vacation role is taken from a member (by the end of a request
\* in the lifecycle pass or by an early return) only if no other request of
\* that member is approved with today in its period.
C40_RoleWhileActive ==
    [][\A g \in Guilds, a \in Actors :
          (VacRole \in member_roles[g][a] /\ VacRole \notin member_roles'[g][a])
          => LET ended == IF lc.pc = "revoke" /\ lc' # lc THEN lc.cur
                          ELSE IF er.pc = "remove" /\ er' # er THEN er.id
                          ELSE NoId
             IN  ~\E id \in DOMAIN vacation_requests \ {ended} :
                    LET data == vacation_requests[id]
                    IN  /\ data.user_id = a
                        /\ data.guild_id = g
                        /\ data.status = "approved"
                        /\ data.start_date <= Date(now)
                        /\ Date(now) < data.end_date]_vars

====
